---- MODULE Spec2Model ----
(***************************************************************************)
(* Job scheduling core of ShortSync Pro: the priority job queue of         *)
(* bot/core/job_queue.py (JobQueue) and the job table of                   *)
(* bot/core/state_manager.py (StateManager).                               *)
(*                                                                         *)
(* Time is counted in ticks of the wall clock read by datetime.utcnow();   *)
(* TicksPerHour ticks make the one-hour window of the rate limiter.        *)
(* Job ids stand for the uuid4 strings of create_job: the n-th job created *)
(* has id n.                                                               *)
(***************************************************************************)
EXTENDS Integers, Sequences, FiniteSets

\* ---------------------------------------------------------------- bounds
MaxJobs == 3
MaxTime == 2
TicksPerHour == 1
PerHourUpload == 2
PerHourPipeline == 1

\* ------------------------------------------------------- program constants
\* JobPriority
LOW == 0
NORMAL == 1
HIGH == 2
CRITICAL == 3
JobPriority == {LOW, NORMAL, HIGH, CRITICAL}
\* the priorities the model submits
SubmittedPriority == {LOW, NORMAL, HIGH}

\* JobStatus
PENDING == "pending"
PROCESSING == "processing"
COMPLETED == "completed"
FAILED == "failed"
CANCELLED == "cancelled"
TerminalStatus == {COMPLETED, FAILED, CANCELLED}

\* JobType: the two types the model submits
YOUTUBE_UPLOAD == "youtube_upload"
PIPELINE_EXECUTION == "pipeline_execution"
JobType == {YOUTUBE_UPLOAD, PIPELINE_EXECUTION}

MaxConcurrentUpload == 1
MaxConcurrentPipeline == 2

\* job_type_limits of JobQueue.__init__ (per_hour scaled down to the bounds)
job_type_limits ==
  [t \in JobType |->
     IF t = YOUTUBE_UPLOAD
     THEN [max_concurrent |-> MaxConcurrentUpload, per_hour |-> PerHourUpload]
     ELSE [max_concurrent |-> MaxConcurrentPipeline, per_hour |-> PerHourPipeline]]

JobIds == 1..MaxJobs
None == "None"
\* no job id, no timestamp
NoTime == 0 - 1

\* ------------------------------------------------------------------ state
VARIABLES
  now,              \* the wall clock, datetime.utcnow()
  priority_queue,   \* JobQueue.priority_queue: the heap array of PrioritizedJob
  job_data,         \* the full_job_data dict of each created job
  active_jobs,      \* JobQueue.active_jobs: job id -> task state
  job_results,      \* JobQueue.job_results: job id -> JobResult.status
  job_counters,     \* JobQueue.job_counters
  hourly_counters,  \* JobQueue.hourly_counters: per type, the release timestamps
  queue_lock,       \* JobQueue.queue_lock.locked()
  db,               \* the jobs table behind db.save_job / db.update_job_status
  queue_file,       \* the snapshot written by save_queue_state
  ret,              \* the last call of the queue API and what it returned
  sm_jobs,          \* StateManager.active_jobs: job id -> JobState
  state_file,       \* the snapshot written by StateManager.save_state
  active_pipelines, \* StateManager.active_pipelines: pipeline id -> PipelineState
  pipeline_jobs,    \* EnhancedPipeline.active_jobs: job id -> PipelineJob
  run,              \* the last process_job call: its stage functions and its result
  breaker,          \* CircuitBreaker: state, failures, last_failure_time
  breaker_calls     \* the CircuitBreaker.call invocations in flight

queueVars == <<priority_queue, job_data, active_jobs, job_results, job_counters,
               hourly_counters, queue_lock, db, queue_file>>
stateVars == <<sm_jobs, state_file>>
pipeVars == <<active_pipelines, pipeline_jobs, run>>
breakerVars == <<breaker, breaker_calls>>
vars == <<now, priority_queue, job_data, active_jobs, job_results, job_counters,
          hourly_counters, queue_lock, db, queue_file, ret, sm_jobs, state_file,
          active_pipelines, pipeline_jobs, run, breaker,
          breaker_calls>>

\* ------------------------------------------------------------ PrioritizedJob
\* dataclass(order=True): compares (priority, timestamp); job_id and job_data
\* are compare=False
PrioritizedJob(priority, timestamp, job_id) ==
  [priority |-> priority, timestamp |-> timestamp, job_id |-> job_id]

Less(a, b) ==
  \/ a.priority < b.priority
  \/ a.priority = b.priority /\ a.timestamp < b.timestamp

\* ---------------------------------------------------------------- heapq
\* Positions are the 0-based positions of heapq; heap[pos + 1] is the element.
RECURSIVE siftdown(_, _, _, _)
siftdown(heap, startpos, pos, newitem) ==
  IF pos > startpos
  THEN LET parentpos == (pos - 1) \div 2
           parent == heap[parentpos + 1]
       IN IF Less(newitem, parent)
          THEN siftdown([heap EXCEPT ![pos + 1] = parent], startpos, parentpos, newitem)
          ELSE [heap EXCEPT ![pos + 1] = newitem]
  ELSE [heap EXCEPT ![pos + 1] = newitem]

RECURSIVE siftup_loop(_, _, _, _)
siftup_loop(heap, startpos, pos, newitem) ==
  LET endpos == Len(heap)
      leftpos == 2 * pos + 1
      rightpos == leftpos + 1
      childpos == IF rightpos < endpos /\ ~Less(heap[leftpos + 1], heap[rightpos + 1])
                  THEN rightpos ELSE leftpos
  IN IF leftpos < endpos
     THEN siftup_loop([heap EXCEPT ![pos + 1] = heap[childpos + 1]], startpos, childpos, newitem)
     ELSE siftdown([heap EXCEPT ![pos + 1] = newitem], startpos, pos, newitem)

siftup(heap, pos) == siftup_loop(heap, pos, pos, heap[pos + 1])

heappush(heap, item) ==
  LET h == Append(heap, item)
  IN siftdown(h, 0, Len(h) - 1, item)

\* heappop: the item returned and the heap left
heappop_item(heap) == heap[1]

heappop_rest(heap) ==
  LET lastelt == heap[Len(heap)]
      h == SubSeq(heap, 1, Len(heap) - 1)
  IN IF h = <<>> THEN h ELSE siftup([h EXCEPT ![1] = lastelt], 0)

RECURSIVE heapify_from(_, _)
heapify_from(x, i) ==
  IF i < 0 THEN x ELSE heapify_from(siftup(x, i), i - 1)

heapify(x) == heapify_from(x, (Len(x) \div 2) - 1)

\* list.pop(i), i 0-based
list_pop(x, i) == SubSeq(x, 1, i) \o SubSeq(x, i + 2, Len(x))

\* ------------------------------------------------------------- JobQueue
NoJob == [job_type |-> None, priority |-> NoTime, status |-> None, started_at |-> NoTime]
Created == {j \in JobIds : job_data[j].status # None}
Queued == {priority_queue[i].job_id : i \in DOMAIN priority_queue}
Hung == "never returns"
ZeroCounters == [t \in JobType |-> [total |-> 0, completed |-> 0, failed |-> 0, cancelled |-> 0]]

Returned(op, val) == [op |-> op, val |-> val]

\* JobState of state_manager.py; NoJobState stands for an id not in active_jobs
JobState(job_type, status, progress, started_at, completed_at, result, error) ==
  [job_type |-> job_type, status |-> status, progress |-> progress,
   started_at |-> started_at, completed_at |-> completed_at,
   result |-> result, error |-> error]
NoJobState == JobState(None, None, None, NoTime, NoTime, None, None)

\* PipelineStage of state_manager.py, in the order of its declaration
PipelineStageOrder ==
  <<"idle", "trend_detection", "script_generation", "asset_gathering",
    "voiceover_generation", "video_assembly", "thumbnail_generation",
    "quality_check", "approval_pending", "youtube_upload", "completed", "failed">>
\* a stage value is a member of the enum or a plain str carrying a stage name
Member(name) == [enum |-> TRUE, value |-> name]
Str(name) == [enum |-> FALSE, value |-> name]
PipelineStage == {Member(PipelineStageOrder[i]) : i \in DOMAIN PipelineStageOrder}
IDLE == Member("idle")
TREND_DETECTION == Member("trend_detection")
STAGE_COMPLETED == Member("completed")
STAGE_FAILED == Member("failed")

\* PipelineState of state_manager.py; NoPipelineState stands for an id not in
\* active_pipelines
PipelineState(stage, progress, start_time, end_time, error_message) ==
  [stage |-> stage, progress |-> progress, start_time |-> start_time,
   end_time |-> end_time, error_message |-> error_message]
NoPipelineState == PipelineState(Str(None), None, NoTime, NoTime, None)

\* PipelineJob of enhanced_pipeline.py; NoPipelineJob stands for an id not in
\* EnhancedPipeline.active_jobs
PipelineJob(status, error, completed_at) ==
  [status |-> status, error |-> error, completed_at |-> completed_at]
NoPipelineJob == PipelineJob(None, None, NoTime)

\* the stages of _execute_pipeline, in the order of its list
stages ==
  <<"trend_detection", "script_generation", "asset_gathering",
    "voiceover_generation", "video_assembly", "quality_check">>
\* what a stage function does when it is awaited
StageOutcome == {"success", "failure", "exception", "no return"}
\* no process_job call yet
NoRun ==
  [job_id |-> 0, fails_at |-> 0, outcome |-> None, invoked |-> <<>>,
   returned |-> FALSE, success |-> FALSE, error |-> None, failed_stage |-> None]

\* ------------------------------------------------------- CircuitBreaker
\* the constructor arguments of the breaker (in ticks of the clock) and the
\* number of call invocations that can be in flight together
FailureThreshold == 2
RecoveryTimeout == 1
MaxCalls == 2
CallIds == 1..MaxCalls
\* CircuitBreaker.__init__
NewBreaker == [state |-> "CLOSED", failures |-> 0, last_failure_time |-> NoTime]
\* an invocation that is not in flight; one that awaits func carries the
\* state of the breaker it was admitted in
NoCall == [awaiting |-> FALSE, admitted |-> None]
\* how the awaited func ends
CallOutcome == {"success", "exception"}

\* ------------------------------------------------------- serialisation
\* a time written as text: the separator between date and time, and the
\* instant; null is the json of None
\* datetime.isoformat(), used by save_queue_state
isoformat(t) == [sep |-> "T", ticks |-> t]
\* str(datetime), what json.dump(default=str) writes in save_state
datetime_str(t) == [sep |-> " ", ticks |-> t]
null == [sep |-> "null", ticks |-> NoTime]
\* a text that is no date
NotATime == [sep |-> "?", ticks |-> NoTime]
\* datetime.fromisoformat: reads both separators, raises ValueError otherwise
fromisoformat_raises(text) == text.sep \notin {"T", " "}
fromisoformat(text) == text.ticks

\* the names of the members of PipelineStage, in the order of PipelineStageOrder
PipelineStageNames ==
  <<"IDLE", "TREND_DETECTION", "SCRIPT_GENERATION", "ASSET_GATHERING",
    "VOICEOVER_GENERATION", "VIDEO_ASSEMBLY", "THUMBNAIL_GENERATION",
    "QUALITY_CHECK", "APPROVAL_PENDING", "YOUTUBE_UPLOAD", "COMPLETED", "FAILED">>

\* the position of a stage in the order of PipelineStage
StageIndex(stage) ==
  CHOOSE i \in DOMAIN PipelineStageOrder : PipelineStageOrder[i] = stage.value

\* json.dump(default=str) of a stage: str(member) is "PipelineStage.NAME", a
\* str is written as it is
json_stage(stage) ==
  IF stage.enum
  THEN "PipelineStage." \o PipelineStageNames[StageIndex(stage)]
  ELSE stage.value

\* json of an Optional[datetime] field of asdict(state)
json_time(t) == IF t = NoTime THEN null ELSE datetime_str(t)

\* asdict(PipelineState) and asdict(JobState) as save_state writes them;
\* NoPipelineData and NoJobData stand for an id not in the file
asdict_pipeline(state) ==
  [stage |-> json_stage(state.stage), progress |-> state.progress,
   start_time |-> json_time(state.start_time), end_time |-> json_time(state.end_time),
   error_message |-> state.error_message]
NoPipelineData == asdict_pipeline(NoPipelineState)

asdict_job(state) ==
  [job_type |-> state.job_type, status |-> state.status, progress |-> state.progress,
   started_at |-> json_time(state.started_at),
   completed_at |-> json_time(state.completed_at),
   result |-> state.result, error |-> state.error]
NoJobData == asdict_job(NoJobState)

Init ==
  /\ now = 0
  /\ priority_queue = <<>>
  /\ job_data = [j \in JobIds |-> NoJob]
  /\ active_jobs = [j \in JobIds |-> None]
  /\ job_results = [j \in JobIds |-> None]
  /\ job_counters = ZeroCounters
  /\ hourly_counters = [t \in JobType |-> <<>>]
  /\ queue_lock = FALSE
  /\ db = [j \in JobIds |-> None]
  /\ queue_file = [exists |-> FALSE, queue |-> <<>>, job_counters |-> ZeroCounters]
  /\ ret = Returned(None, None)
  /\ sm_jobs = [j \in JobIds |-> NoJobState]
  /\ state_file = [exists |-> FALSE,
                   active_pipelines |-> [j \in JobIds |-> NoPipelineData],
                   active_jobs |-> [j \in JobIds |-> NoJobData]]
  /\ active_pipelines = [j \in JobIds |-> NoPipelineState]
  /\ pipeline_jobs = [j \in JobIds |-> NoPipelineJob]
  /\ run = NoRun
  /\ breaker = NewBreaker
  /\ breaker_calls = [c \in CallIds |-> NoCall]

\* faulty variant of check_rate_limits: the hourly cap compared with > instead of >=
check_rate_limits_off_by_one(job_type) ==
  LET limits == job_type_limits[job_type]
      concurrent_count == Cardinality({j \in JobIds : active_jobs[j] = "running"})
      hour_ago == now - TicksPerHour
      calls == hourly_counters[job_type]
      hourly_count == Cardinality({i \in DOMAIN calls : calls[i] > hour_ago})
  IN /\ ~(concurrent_count >= limits.max_concurrent)
     /\ ~(hourly_count > limits.per_hour)

\* _check_rate_limits: the concurrent count is taken over all of active_jobs,
\* the hourly count over the calls of job_type newer than one hour
check_rate_limits(job_type) ==
  LET limits == job_type_limits[job_type]
      concurrent_count == Cardinality({j \in JobIds : active_jobs[j] = "running"})
      hour_ago == now - TicksPerHour
      calls == hourly_counters[job_type]
      hourly_count == Cardinality({i \in DOMAIN calls : calls[i] > hour_ago})
  IN /\ ~(concurrent_count >= limits.max_concurrent)
     /\ ~(hourly_count >= limits.per_hour)

\* faulty variant of acquire_waits: a lock that lets every caller in
acquire_waits_never(locked) == FALSE

\* asyncio.Lock.acquire: a taken lock makes the caller wait, also when the
\* caller is the task that holds it (the lock is not reentrant)
acquire_waits(locked) == locked

\* what save_queue_state writes once it has the lock: the heap array in its
\* order, each timestamp as isoformat text, and the counters under the value
\* of their job type (a JobType of the model is that value)
Snapshot(queue, counters) ==
  [exists |-> TRUE,
   queue |-> [i \in DOMAIN queue |->
                [priority |-> queue[i].priority,
                 timestamp |-> isoformat(queue[i].timestamp),
                 job_id |-> queue[i].job_id]],
   job_counters |-> counters]

\* create_job: push, count, db.save_job under the lock; save_queue_state after
\* the lock is released. A caller finding the lock taken waits for it.
\* db_fails: db.save_job raises (DatabaseManager.save_job re-raises what the
\* database raises); nothing in create_job catches it, so the lock is
\* released by the with block and the exception reaches the caller.
create_job_with(job_type, priority, db_fails) ==
  /\ Cardinality(Created) < MaxJobs
  /\ ~acquire_waits(queue_lock)
  /\ LET job_id == Cardinality(Created) + 1
         prioritized_job == PrioritizedJob(priority, now, job_id)
     IN /\ priority_queue' = heappush(priority_queue, prioritized_job)
        /\ job_data' = [job_data EXCEPT ![job_id] =
                          [job_type |-> job_type, priority |-> priority,
                           status |-> PENDING, started_at |-> NoTime]]
        /\ job_counters' = [job_counters EXCEPT ![job_type].total = @ + 1]
        /\ IF db_fails
           THEN /\ ret' = Returned("create_job", "raised")
                /\ UNCHANGED <<db, queue_file>>
           ELSE /\ db' = [db EXCEPT ![job_id] = PENDING]
                /\ queue_file' = Snapshot(priority_queue', job_counters')
                /\ ret' = Returned("create_job", "job_id")
  /\ UNCHANGED <<breakerVars, now, active_jobs, job_results, hourly_counters, queue_lock, stateVars, pipeVars>>

\* create_job with the database answering
create_job(job_type, priority) == create_job_with(job_type, priority, FALSE)

\* faulty variant of put_back: the item goes back "with delay", stamped with the time
\* of the attempt
put_back_delayed(rest, prioritized_job) ==
  heappush(rest, [prioritized_job EXCEPT !.timestamp = now])

\* get_job, line 198: the rate-limited item goes back as it was popped
put_back(rest, prioritized_job) == heappush(rest, prioritized_job)

\* get_job. A call that finds the lock taken by a call that never returns
\* waits until its timeout and returns None. With the lock free: pop; a
\* rate-limited item is put back and None returned; otherwise the item is
\* marked processing and its call recorded, and save_queue_state is awaited
\* with queue_lock held: if that acquire waits, the timeout ends the call, the
\* lock is released on the way out and None is returned.
\* db_fails: db.update_job_status raises; except Exception (line 223) logs it
\* and None is returned.
get_job_with(db_fails) ==
  /\ IF acquire_waits(queue_lock) \/ priority_queue = <<>>
     THEN /\ ret' = Returned("get_job", None)
          /\ UNCHANGED <<priority_queue, job_data, hourly_counters, db, queue_file>>
     ELSE LET prioritized_job == heappop_item(priority_queue)
              rest == heappop_rest(priority_queue)
              job_id == prioritized_job.job_id
              job_type == job_data[job_id].job_type
          IN IF ~check_rate_limits(job_type)
             THEN /\ priority_queue' = put_back(rest, prioritized_job)
                  /\ ret' = Returned("get_job", None)
                  /\ UNCHANGED <<job_data, hourly_counters, db, queue_file>>
             ELSE /\ priority_queue' = rest
                  /\ job_data' = [job_data EXCEPT ![job_id].status = PROCESSING,
                                                  ![job_id].started_at = now]
                  /\ hourly_counters' = [hourly_counters EXCEPT ![job_type] = Append(@, now)]
                  /\ IF db_fails
                     THEN /\ ret' = Returned("get_job", None)
                          /\ UNCHANGED <<db, queue_file>>
                     ELSE /\ db' = [db EXCEPT ![job_id] = PROCESSING]
                          /\ IF acquire_waits(TRUE)
                             THEN /\ ret' = Returned("get_job", None)
                                  /\ UNCHANGED queue_file
                             ELSE /\ ret' = Returned("get_job", "job_data")
                                  /\ queue_file' = Snapshot(rest, job_counters)
  /\ UNCHANGED <<breakerVars, now, active_jobs, job_results, job_counters, queue_lock, stateVars, pipeVars>>

\* get_job with the database answering
get_job == get_job_with(FALSE)

\* enumerate(self.priority_queue): the first position holding job_id
QueueIndex(job_id) ==
  CHOOSE i \in DOMAIN priority_queue :
    /\ priority_queue[i].job_id = job_id
    /\ \A k \in 1..(i - 1) : priority_queue[k].job_id # job_id

\* _get_job_type_for_id begins by acquiring queue_lock. cancel_job and
\* submit_job_result await it with the lock held and without a timeout: when
\* that acquire waits, the call never returns and the lock stays taken.
\* The job type the database would give is the type the job was created with.
get_job_type_for_id(job_id) == job_data[job_id].job_type

\* faulty variant of cancel_job: no test that the id is queued or active
cancel_job_any(job_id) ==
  /\ ~acquire_waits(queue_lock)
  /\ job_results' = [job_results EXCEPT ![job_id] = CANCELLED]
  /\ ret' = Returned("cancel_job", "True")
  /\ UNCHANGED <<breakerVars, now, priority_queue, job_data, active_jobs, job_counters,
                 hourly_counters, queue_lock, db, queue_file, stateVars, pipeVars>>

\* cancel_job: the pending branch, the active branch, the unknown id
cancel_job(job_id) ==
  /\ ~acquire_waits(queue_lock)
  /\ IF job_id \in Queued
     THEN /\ priority_queue' = heapify(list_pop(priority_queue, QueueIndex(job_id) - 1))
          /\ job_results' = [job_results EXCEPT ![job_id] = CANCELLED]
          /\ IF acquire_waits(TRUE)
             THEN /\ queue_lock' = TRUE
                  /\ ret' = Returned("cancel_job", Hung)
                  /\ UNCHANGED <<job_counters, db>>
             ELSE /\ job_counters' = [job_counters EXCEPT ![get_job_type_for_id(job_id)].cancelled = @ + 1]
                  /\ db' = [db EXCEPT ![job_id] = CANCELLED]
                  /\ ret' = Returned("cancel_job", "True")
                  /\ UNCHANGED queue_lock
          /\ UNCHANGED active_jobs
     ELSE IF active_jobs[job_id] # None
     THEN /\ job_results' = [job_results EXCEPT ![job_id] = CANCELLED]
          /\ IF acquire_waits(TRUE)
             THEN /\ active_jobs' = [active_jobs EXCEPT ![job_id] = "done"]
                  /\ queue_lock' = TRUE
                  /\ ret' = Returned("cancel_job", Hung)
                  /\ UNCHANGED <<job_counters, db>>
             ELSE /\ active_jobs' = [active_jobs EXCEPT ![job_id] = None]
                  /\ job_counters' = [job_counters EXCEPT ![get_job_type_for_id(job_id)].cancelled = @ + 1]
                  /\ db' = [db EXCEPT ![job_id] = CANCELLED]
                  /\ ret' = Returned("cancel_job", "True")
                  /\ UNCHANGED queue_lock
          /\ UNCHANGED priority_queue
     ELSE /\ ret' = Returned("cancel_job", "False")
          /\ UNCHANGED <<priority_queue, active_jobs, job_results, job_counters, db, queue_lock>>
  /\ UNCHANGED <<breakerVars, now, job_data, hourly_counters, queue_file, stateVars, pipeVars>>

\* submit_job_result: stores the result, then awaits _get_job_type_for_id
\* with the lock held; past that await (lines 235-266) the counter named by
\* the status is raised, the task is taken out of active_jobs, the database
\* is told, and save_queue_state is awaited after the lock is released.
\* Its one caller is _handle_job_completion, the done-callback of the task
\* _process_queue starts for a job that get_job returned.
submit_job_result(job_id, status) ==
  /\ ~acquire_waits(queue_lock)
  /\ job_results' = [job_results EXCEPT ![job_id] = status]
  /\ IF acquire_waits(TRUE)
     THEN /\ queue_lock' = TRUE
          /\ ret' = Returned("submit_job_result", Hung)
          /\ UNCHANGED <<active_jobs, job_counters, db, queue_file>>
     ELSE /\ job_counters' =
               [job_counters EXCEPT ![get_job_type_for_id(job_id)][status] = @ + 1]
          /\ active_jobs' = [active_jobs EXCEPT ![job_id] = None]
          /\ db' = [db EXCEPT ![job_id] = status]
          /\ queue_file' = Snapshot(priority_queue, job_counters')
          /\ ret' = Returned("submit_job_result", None)
          /\ UNCHANGED queue_lock
  /\ UNCHANGED <<breakerVars, now, priority_queue, job_data, hourly_counters, stateVars, pipeVars>>

\* the wall clock advances
Tick ==
  /\ now < MaxTime
  /\ now' = now + 1
  /\ UNCHANGED <<queueVars, ret, stateVars, pipeVars, breakerVars>>

Next ==
  \/ \E job_type \in JobType, priority \in SubmittedPriority : create_job(job_type, priority)
  \/ get_job
  \/ \E job_id \in JobIds : cancel_job(job_id)
  \/ Tick

Spec == Init /\ [][Next]_vars

\* the queue with results submitted for the jobs that get_job has released
\* (submit_job_result is public; _handle_job_completion is its caller inside
\* the queue)
NextSubmit ==
  \/ Next
  \/ \E job_id \in {j \in JobIds : job_data[j].status = PROCESSING},
        status \in {COMPLETED, FAILED} :
       submit_job_result(job_id, status)

SpecSubmit == Init /\ [][NextSubmit]_vars

\* the queue over a database whose writes may fail
NextDbDown ==
  \/ \E priority \in SubmittedPriority, db_fails \in BOOLEAN :
       create_job_with(YOUTUBE_UPLOAD, priority, db_fails)
  \/ \E db_fails \in BOOLEAN : get_job_with(db_fails)
  \/ Tick

SpecDbDown == Init /\ [][NextDbDown]_vars

\* ------------------------------------------------- _check_rate_limits alone
\* the tasks _process_queue keeps in active_jobs (line 417) for the jobs that
\* get_job hands it: running, or done and not yet removed
TaskStates == {None, "running", "done"}

\* a queue with tasks in active_jobs: every job with a task was released at
\* time 0, is marked processing and has its call in the hourly list of its type
InitLimiter ==
  /\ now = 0
  /\ priority_queue = <<>>
  /\ active_jobs \in [JobIds -> TaskStates]
  /\ \E types \in [JobIds -> JobType] :
       LET released(t) == {j \in JobIds : active_jobs[j] # None /\ types[j] = t}
       IN /\ job_data = [j \in JobIds |->
                           IF active_jobs[j] = None
                           THEN NoJob
                           ELSE [job_type |-> types[j], priority |-> NORMAL,
                                 status |-> PROCESSING, started_at |-> 0]]
          /\ hourly_counters = [t \in JobType |-> [i \in 1..Cardinality(released(t)) |-> 0]]
          /\ job_counters = [t \in JobType |->
                               [total |-> Cardinality(released(t)), completed |-> 0,
                                failed |-> 0, cancelled |-> 0]]
  /\ job_results = [j \in JobIds |-> None]
  /\ queue_lock = FALSE
  /\ db = [j \in JobIds |-> IF active_jobs[j] = None THEN None ELSE PROCESSING]
  /\ queue_file = Snapshot(<<>>, job_counters)
  /\ ret = Returned(None, None)
  /\ sm_jobs = [j \in JobIds |-> NoJobState]
  /\ state_file = [exists |-> FALSE,
                   active_pipelines |-> [j \in JobIds |-> NoPipelineData],
                   active_jobs |-> [j \in JobIds |-> NoJobData]]
  /\ active_pipelines = [j \in JobIds |-> NoPipelineState]
  /\ pipeline_jobs = [j \in JobIds |-> NoPipelineJob]
  /\ run = NoRun
  /\ breaker = NewBreaker
  /\ breaker_calls = [c \in CallIds |-> NoCall]

\* _check_rate_limits awaited for job_type, its answer recorded
check(job_type) ==
  /\ ret' = Returned("_check_rate_limits", IF check_rate_limits(job_type) THEN "True" ELSE "False")
  /\ UNCHANGED <<breakerVars, now, queueVars, stateVars, pipeVars>>

NextLimiter ==
  \/ \E job_type \in JobType : check(job_type)
  \/ Tick

SpecLimiter == InitLimiter /\ [][NextLimiter]_vars

\* --------------------------------------------------------- StateManager
MaxStateJobs == 2
StateJobIds == 1..MaxStateJobs
\* the statuses, results and errors the callers pass
StatusValues == {PENDING, PROCESSING, COMPLETED, FAILED}
ResultValues == {None, "result"}
ErrorValues == {None, "error"}

\* save_state: asdict of every PipelineState and JobState, written as json
\* with default=str
save_state(pipelines, jobs) ==
  [exists |-> TRUE,
   active_pipelines |-> [p \in JobIds |-> asdict_pipeline(pipelines[p])],
   active_jobs |-> [j \in JobIds |-> asdict_job(jobs[j])]]

\* create_job_state: a fresh JobState under job_id, whatever was there
create_job_state(job_id, job_type) ==
  /\ sm_jobs' = [sm_jobs EXCEPT ![job_id] =
                   JobState(job_type, PENDING, "0.0", NoTime, NoTime, None, None)]
  /\ state_file' = save_state(active_pipelines, sm_jobs')
  /\ UNCHANGED <<breakerVars, now, queueVars, ret, pipeVars>>

\* update_job_status, lines 168-181: an id that is not in active_jobs is only
\* logged; status and progress are assigned whatever the current status is
job_status_updated(jobs, job_id, status, progress, result, error) ==
  IF jobs[job_id] = NoJobState
  THEN jobs
  ELSE LET state == jobs[job_id]
           stamped ==
             IF status = PROCESSING /\ state.started_at = NoTime
             THEN [state EXCEPT !.started_at = now]
             ELSE IF status \in {COMPLETED, FAILED}
             THEN [state EXCEPT !.completed_at = now, !.result = result, !.error = error]
             ELSE state
       IN [jobs EXCEPT ![job_id] = [stamped EXCEPT !.status = status, !.progress = progress]]

update_job_status(job_id, status, progress, result, error) ==
  /\ IF sm_jobs[job_id] = NoJobState
     THEN UNCHANGED stateVars
     ELSE /\ sm_jobs' = job_status_updated(sm_jobs, job_id, status, progress, result, error)
          /\ state_file' = save_state(active_pipelines, sm_jobs')
  /\ UNCHANGED <<breakerVars, now, queueVars, ret, pipeVars>>

NextState ==
  \/ \E job_id \in StateJobIds, job_type \in JobType : create_job_state(job_id, job_type)
  \/ \E job_id \in StateJobIds, status \in StatusValues,
        result \in ResultValues, error \in ErrorValues :
       update_job_status(job_id, status, "0.0", result, error)

SpecState == Init /\ [][NextState]_vars

\* ------------------------------------------- StateManager: pipeline runs
\* the stages the callers pass: members of the enum, and the str that
\* _execute_pipeline passes for its first stage
StageArgs ==
  {TREND_DETECTION, Member("video_assembly"), STAGE_COMPLETED, STAGE_FAILED,
   Str("trend_detection")}

\* faulty variant of pipeline_stage_updated: end_time is never stamped
pipeline_stage_updated_unstamped(pipelines, pipeline_id, stage, progress) ==
  LET state == IF pipelines[pipeline_id] = NoPipelineState
               THEN PipelineState(IDLE, "0.0", NoTime, NoTime, None)
               ELSE pipelines[pipeline_id]
      assigned == [state EXCEPT !.stage = stage, !.progress = progress]
      stamped ==
        IF stage = TREND_DETECTION /\ assigned.start_time = NoTime
        THEN [assigned EXCEPT !.start_time = now]
        ELSE assigned
  IN [pipelines EXCEPT ![pipeline_id] = stamped]

\* update_pipeline_stage, lines 129-142: the state is created when missing,
\* stage and progress are assigned, start_time and end_time are stamped for
\* the members TREND_DETECTION, COMPLETED and FAILED (a str equals no member)
pipeline_stage_updated(pipelines, pipeline_id, stage, progress) ==
  LET state == IF pipelines[pipeline_id] = NoPipelineState
               THEN PipelineState(IDLE, "0.0", NoTime, NoTime, None)
               ELSE pipelines[pipeline_id]
      assigned == [state EXCEPT !.stage = stage, !.progress = progress]
      stamped ==
        IF stage = TREND_DETECTION /\ assigned.start_time = NoTime
        THEN [assigned EXCEPT !.start_time = now]
        ELSE IF stage \in {STAGE_COMPLETED, STAGE_FAILED}
        THEN [assigned EXCEPT !.end_time = now]
        ELSE assigned
  IN [pipelines EXCEPT ![pipeline_id] = stamped]

\* update_pipeline_stage, line 147: the log line reads stage.value after the
\* state is saved; a str has no attribute value and AttributeError is raised
stage_value_raises(stage) == ~stage.enum

create_pipeline_state(pipeline_id) ==
  /\ active_pipelines' = [active_pipelines EXCEPT ![pipeline_id] =
                            PipelineState(IDLE, "0.0", NoTime, NoTime, None)]
  /\ state_file' = save_state(active_pipelines', sm_jobs)
  /\ ret' = Returned("create_pipeline_state", "state")
  /\ UNCHANGED <<breakerVars, now, queueVars, sm_jobs, pipeline_jobs, run>>

update_pipeline_stage(pipeline_id, stage, progress) ==
  /\ active_pipelines' = pipeline_stage_updated(active_pipelines, pipeline_id, stage, progress)
  /\ state_file' = save_state(active_pipelines', sm_jobs)
  /\ ret' = Returned("update_pipeline_stage",
                     IF stage_value_raises(stage) THEN "AttributeError" ELSE None)
  /\ UNCHANGED <<breakerVars, now, queueVars, sm_jobs, pipeline_jobs, run>>

\* set_pipeline_error: only for a pipeline id in active_pipelines
set_pipeline_error(pipeline_id, error_message) ==
  /\ IF active_pipelines[pipeline_id] = NoPipelineState
     THEN UNCHANGED <<active_pipelines, state_file>>
     ELSE /\ active_pipelines' =
               [active_pipelines EXCEPT ![pipeline_id] =
                  [@ EXCEPT !.stage = STAGE_FAILED, !.error_message = error_message,
                            !.end_time = now]]
          /\ state_file' = save_state(active_pipelines', sm_jobs)
  /\ ret' = Returned("set_pipeline_error", None)
  /\ UNCHANGED <<breakerVars, now, queueVars, sm_jobs, pipeline_jobs, run>>

NextStage ==
  \/ \E pipeline_id \in StateJobIds : create_pipeline_state(pipeline_id)
  \/ \E pipeline_id \in StateJobIds, stage \in StageArgs :
       update_pipeline_stage(pipeline_id, stage, "0.0")
  \/ \E pipeline_id \in StateJobIds : set_pipeline_error(pipeline_id, "error")

SpecStage == Init /\ [][NextStage]_vars

\* ------------------------------------------------------ EnhancedPipeline
\* what process_job is told about the stage functions: no stage fails, or
\* the stages before fails_at succeed and that one fails, raises or never
\* returns
StageBehaviour ==
  {<<0, "success">>} \cup
  ((1..Len(stages)) \X (StageOutcome \ {"success"}))

\* the error text of a failed stage, lines 259-263 and 274-279
StageError(stage_name) == "Stage " \o stage_name \o " failed"

\* _execute_pipeline from the i-th stage on. Each stage: update_pipeline_stage
\* with the stage name (a str) inside the try, then the stage function, then
\* update_pipeline_stage again; except Exception turns whatever is raised in
\* between into the failure of that stage. Nothing bounds the time of the
\* stage function.
RECURSIVE execute_pipeline(_, _, _, _, _, _)
execute_pipeline(pipelines, job_id, i, invoked, fails_at, outcome) ==
  IF i > Len(stages)
  THEN [pipelines |-> pipelines, invoked |-> invoked, returned |-> TRUE,
        success |-> TRUE, error |-> None, failed_stage |-> None]
  ELSE
    LET stage_name == stages[i]
        failure(ps, inv) ==
          [pipelines |-> ps, invoked |-> inv, returned |-> TRUE, success |-> FALSE,
           error |-> StageError(stage_name), failed_stage |-> stage_name]
        started == pipeline_stage_updated(pipelines, job_id, Str(stage_name), "0.0")
        called == Append(invoked, stage_name)
        stage_result == IF i = fails_at THEN outcome ELSE "success"
        finished == pipeline_stage_updated(started, job_id, Str(stage_name), "1.0")
    IN IF stage_value_raises(Str(stage_name)) THEN failure(started, invoked)
       ELSE IF stage_result = "no return"
       THEN [pipelines |-> started, invoked |-> called, returned |-> FALSE,
             success |-> FALSE, error |-> None, failed_stage |-> None]
       ELSE IF stage_result \in {"failure", "exception"} THEN failure(started, called)
       ELSE execute_pipeline(finished, job_id, i + 1, called, fails_at, outcome)

\* create_video_job, lines 171-184. job_id is the answer of the job queue the
\* pipeline was constructed with: the n-th job gets id n.
create_video_job ==
  LET job_id == Cardinality({j \in JobIds : sm_jobs[j] # NoJobState}) + 1
      created == [sm_jobs EXCEPT ![job_id] =
                    JobState("video_creation", PENDING, "0.0", NoTime, NoTime, None, None)]
  IN /\ job_id <= MaxStateJobs
     /\ pipeline_jobs' = [pipeline_jobs EXCEPT ![job_id] = PipelineJob(PENDING, None, NoTime)]
     /\ sm_jobs' = job_status_updated(created, job_id, PENDING, "0.0", None, None)
     /\ state_file' = save_state(active_pipelines, sm_jobs')
     /\ ret' = Returned("create_video_job", "job_id")
     /\ UNCHANGED <<breakerVars, now, queueVars, active_pipelines, run>>

\* process_job. No await of a run gives up control before the stage
\* function is reached, so the call is one step up to there. The result goes
\* to update_job_status in the place of progress, the error in the place of
\* result (lines 204 and 211).
process_job(job_id, fails_at, outcome) ==
  IF pipeline_jobs[job_id] = NoPipelineJob
  THEN /\ ret' = Returned("process_job", "Job not found")
       /\ UNCHANGED <<breakerVars, now, queueVars, stateVars, pipeVars>>
  ELSE
    LET processing == job_status_updated(sm_jobs, job_id, PROCESSING, "0.0", None, None)
        result == execute_pipeline(active_pipelines, job_id, 1, <<>>, fails_at, outcome)
        record == [job_id |-> job_id, fails_at |-> fails_at, outcome |-> outcome,
                   invoked |-> result.invoked, returned |-> result.returned,
                   success |-> result.success, error |-> result.error,
                   failed_stage |-> result.failed_stage]
    IN /\ active_pipelines' = result.pipelines
       /\ run' = record
       /\ IF ~result.returned
          THEN /\ pipeline_jobs' = [pipeline_jobs EXCEPT ![job_id].status = PROCESSING]
               /\ sm_jobs' = processing
               /\ ret' = Returned("process_job", Hung)
          ELSE /\ pipeline_jobs' = [pipeline_jobs EXCEPT ![job_id] = NoPipelineJob]
               /\ sm_jobs' =
                    IF result.success
                    THEN job_status_updated(processing, job_id, COMPLETED, "result", None, None)
                    ELSE job_status_updated(processing, job_id, FAILED, None, result.error, None)
               /\ ret' = Returned("process_job", IF result.success THEN "success" ELSE "failure")
       /\ state_file' = save_state(active_pipelines', sm_jobs')
       /\ UNCHANGED <<breakerVars, now, queueVars>>

\* get_job_status: the PipelineJob while the job is in active_jobs, else the
\* JobState of the state manager, else None
get_job_status(job_id) ==
  IF pipeline_jobs[job_id] # NoPipelineJob
  THEN [found |-> TRUE, status |-> pipeline_jobs[job_id].status,
        error |-> pipeline_jobs[job_id].error]
  ELSE IF sm_jobs[job_id] # NoJobState
  THEN [found |-> TRUE, status |-> sm_jobs[job_id].status, error |-> sm_jobs[job_id].error]
  ELSE [found |-> FALSE, status |-> None, error |-> None]

NextPipeline ==
  \/ create_video_job
  \/ \E job_id \in StateJobIds, behaviour \in StageBehaviour :
       process_job(job_id, behaviour[1], behaviour[2])
  \/ Tick

SpecPipeline == Init /\ [][NextPipeline]_vars

\* ------------------------------------- StateManager: restart and recovery
EmptyPipelines == [p \in JobIds |-> NoPipelineState]
EmptyJobs == [j \in JobIds |-> NoJobState]

\* load_state, lines 297-299 and 306-308: a date field that is set goes
\* through fromisoformat
parse_time(text) == IF text = null THEN NoTime ELSE fromisoformat(text)

state_file_times(file) ==
  UNION {{file.active_pipelines[p].start_time, file.active_pipelines[p].end_time,
          file.active_jobs[p].started_at, file.active_jobs[p].completed_at} : p \in JobIds}

load_state_raises(file) ==
  \E text \in state_file_times(file) : text # null /\ fromisoformat_raises(text)

\* load_state: without a file the tables stay as they are; PipelineState(**data)
\* and JobState(**data) keep every field as json gave it (stage stays the str
\* that was written) and the date fields are parsed; any exception empties
\* both tables
load_state(file, pipelines, jobs) ==
  IF ~file.exists
  THEN [active_pipelines |-> pipelines, active_jobs |-> jobs]
  ELSE IF load_state_raises(file)
  THEN [active_pipelines |-> EmptyPipelines, active_jobs |-> EmptyJobs]
  ELSE [active_pipelines |->
          [p \in JobIds |->
             LET data == file.active_pipelines[p]
             IN PipelineState(Str(data.stage), data.progress, parse_time(data.start_time),
                              parse_time(data.end_time), data.error_message)],
        active_jobs |->
          [j \in JobIds |->
             LET data == file.active_jobs[j]
             IN JobState(data.job_type, data.status, data.progress,
                         parse_time(data.started_at), parse_time(data.completed_at),
                         data.result, data.error)]]

\* check_recovery_needed: false without a state file; else whether a pipeline
\* has a stage that is neither member COMPLETED nor member FAILED, or a job
\* is pending or processing
check_recovery_needed(file, pipelines, jobs) ==
  /\ file.exists
  /\ \/ \E p \in JobIds :
          /\ pipelines[p] # NoPipelineState
          /\ pipelines[p].stage \notin {STAGE_COMPLETED, STAGE_FAILED}
     \/ \E j \in JobIds :
          /\ jobs[j] # NoJobState
          /\ jobs[j].status \in {PENDING, PROCESSING}

\* cleanup_old_states, lines 229-249: the pipelines with an end_time and the
\* jobs with a completed_at before the cutoff are deleted
cleanup_old_states(pipelines, jobs, hours_old) ==
  LET cutoff_time == now - hours_old * TicksPerHour
  IN [active_pipelines |->
        [p \in JobIds |->
           IF pipelines[p].end_time # NoTime /\ pipelines[p].end_time < cutoff_time
           THEN NoPipelineState ELSE pipelines[p]],
      active_jobs |->
        [j \in JobIds |->
           IF jobs[j].completed_at # NoTime /\ jobs[j].completed_at < cutoff_time
           THEN NoJobState ELSE jobs[j]]]

\* recover_state: nothing is done with the recovery data; the one step is
\* cleanup_old_states(hours_old=1), which ends with save_state
recover_state(pipelines, jobs) == cleanup_old_states(pipelines, jobs, 1)

\* StateManager.initialize in a process that starts: a new StateManager has
\* empty tables; load_state, check_recovery_needed and, when that is true,
\* recover_state. The value recorded is what check_recovery_needed returned.
StateManager_initialize ==
  LET loaded == load_state(state_file, EmptyPipelines, EmptyJobs)
      recovery_needed ==
        check_recovery_needed(state_file, loaded.active_pipelines, loaded.active_jobs)
      recovered == recover_state(loaded.active_pipelines, loaded.active_jobs)
  IN /\ IF recovery_needed
        THEN /\ active_pipelines' = recovered.active_pipelines
             /\ sm_jobs' = recovered.active_jobs
             /\ state_file' = save_state(active_pipelines', sm_jobs')
        ELSE /\ active_pipelines' = loaded.active_pipelines
             /\ sm_jobs' = loaded.active_jobs
             /\ UNCHANGED state_file
     /\ ret' = Returned("StateManager.initialize",
                        IF recovery_needed THEN "True" ELSE "False")
     /\ UNCHANGED <<breakerVars, now, queueVars, pipeline_jobs, run>>

\* load_state and then save_state by a new StateManager, nothing in between
reload_state ==
  LET loaded == load_state(state_file, EmptyPipelines, EmptyJobs)
  IN /\ state_file.exists
     /\ active_pipelines' = loaded.active_pipelines
     /\ sm_jobs' = loaded.active_jobs
     /\ state_file' = save_state(active_pipelines', sm_jobs')
     /\ ret' = Returned("reload_state", None)
     /\ UNCHANGED <<breakerVars, now, queueVars, pipeline_jobs, run>>

\* the state file is damaged on disk: the completed_at text of a job is no
\* longer a date
damage_state_file(job_id) ==
  /\ state_file.exists
  /\ state_file.active_jobs[job_id].completed_at \notin {null, NotATime}
  /\ state_file' = [state_file EXCEPT !.active_jobs[job_id].completed_at = NotATime]
  /\ ret' = Returned("damage_state_file", None)
  /\ UNCHANGED <<breakerVars, now, queueVars, sm_jobs, pipeVars>>

\* the stages and statuses of the runs that are restarted
RecoveryStages == {TREND_DETECTION, STAGE_COMPLETED}
RecoveryStatus == {PROCESSING, COMPLETED}

NextRecovery ==
  \/ \E job_id \in StateJobIds : create_job_state(job_id, "video_creation")
  \/ \E job_id \in StateJobIds, status \in RecoveryStatus :
       update_job_status(job_id, status, "0.0", None, None)
  \/ \E stage \in RecoveryStages : update_pipeline_stage(1, stage, "0.0")
  \/ set_pipeline_error(1, "error")
  \/ StateManager_initialize
  \/ Tick

SpecRecovery == Init /\ [][NextRecovery]_vars

\* ----------------------------------------- JobQueue: restart and snapshot
\* faulty variant of load_queue_items: the loaded item is stamped with the time of
\* the load
RECURSIVE load_queue_items_restamped(_, _, _)
load_queue_items_restamped(items, i, heap) ==
  IF i > Len(items)
  THEN [priority_queue |-> heap, raised |-> FALSE]
  ELSE IF fromisoformat_raises(items[i].timestamp)
  THEN [priority_queue |-> heap, raised |-> TRUE]
  ELSE load_queue_items_restamped(
         items, i + 1,
         heappush(heap, PrioritizedJob(items[i].priority, now, items[i].job_id)))

\* load_queue_state, lines 616-624: the items of the file, in its order, are
\* pushed on the empty heap; fromisoformat raising ends the loop with the
\* items pushed so far
RECURSIVE load_queue_items(_, _, _)
load_queue_items(items, i, heap) ==
  IF i > Len(items)
  THEN [priority_queue |-> heap, raised |-> FALSE]
  ELSE IF fromisoformat_raises(items[i].timestamp)
  THEN [priority_queue |-> heap, raised |-> TRUE]
  ELSE load_queue_items(
         items, i + 1,
         heappush(heap, PrioritizedJob(items[i].priority,
                                       fromisoformat(items[i].timestamp),
                                       items[i].job_id)))

\* load_queue_state: without a file nothing is touched; the counters are read
\* after the queue; the except clause only logs
load_queue_state(file, queue, counters) ==
  IF ~file.exists
  THEN [priority_queue |-> queue, job_counters |-> counters, raised |-> FALSE]
  ELSE LET loaded == load_queue_items(file.queue, 1, <<>>)
       IN [priority_queue |-> loaded.priority_queue,
           job_counters |-> IF loaded.raised THEN counters ELSE file.job_counters,
           raised |-> loaded.raised]

\* JobQueue.initialize in a process that starts: a new JobQueue has an empty
\* heap, no results, no tasks and a free lock; the counters are zeroed, the
\* hourly lists emptied and load_queue_state is awaited. job_data keeps the
\* payload of every job ever created: a job id is never given twice.
JobQueue_initialize ==
  LET loaded == load_queue_state(queue_file, <<>>, ZeroCounters)
  IN /\ priority_queue' = loaded.priority_queue
     /\ job_counters' = loaded.job_counters
     /\ hourly_counters' = [t \in JobType |-> <<>>]
     /\ active_jobs' = [j \in JobIds |-> None]
     /\ job_results' = [j \in JobIds |-> None]
     /\ queue_lock' = FALSE
     /\ ret' = Returned("JobQueue.initialize",
                        IF loaded.raised THEN "Error loading queue state" ELSE "self")
     /\ UNCHANGED <<breakerVars, now, job_data, db, queue_file, stateVars, pipeVars>>

\* load_queue_state and then save_queue_state by a new JobQueue, nothing in
\* between
reload_queue_state ==
  LET loaded == load_queue_state(queue_file, <<>>, ZeroCounters)
  IN /\ queue_file.exists
     /\ priority_queue' = loaded.priority_queue
     /\ job_counters' = loaded.job_counters
     /\ hourly_counters' = [t \in JobType |-> <<>>]
     /\ active_jobs' = [j \in JobIds |-> None]
     /\ job_results' = [j \in JobIds |-> None]
     /\ queue_lock' = FALSE
     /\ queue_file' = Snapshot(priority_queue', job_counters')
     /\ ret' = Returned("reload_queue_state", None)
     /\ UNCHANGED <<breakerVars, now, job_data, db, stateVars, pipeVars>>

\* the queue file is damaged on disk: the timestamp text of its i-th item is
\* no longer a date
damage_queue_file(i) ==
  /\ queue_file.exists
  /\ i \in DOMAIN queue_file.queue
  /\ \A k \in DOMAIN queue_file.queue : queue_file.queue[k].timestamp # NotATime
  /\ queue_file' = [queue_file EXCEPT !.queue[i].timestamp = NotATime]
  /\ ret' = Returned("damage_queue_file", None)
  /\ UNCHANGED <<breakerVars, now, priority_queue, job_data, active_jobs, job_results, job_counters,
                 hourly_counters, queue_lock, db, stateVars, pipeVars>>

\* both components reloaded over their snapshots: jobs of one type are
\* submitted, one job and one pipeline run are tracked
NextSnapshot ==
  \/ \E priority \in SubmittedPriority : create_job(YOUTUBE_UPLOAD, priority)
  \/ reload_queue_state
  \/ create_job_state(1, "video_creation")
  \/ update_job_status(1, COMPLETED, "1.0", "result", None)
  \/ update_pipeline_stage(1, STAGE_COMPLETED, "1.0")
  \/ reload_state
  \/ Tick

SpecSnapshot == Init /\ [][NextSnapshot]_vars

\* both components restarted over snapshots that may be damaged
NextRestart ==
  \/ \E priority \in SubmittedPriority : create_job(YOUTUBE_UPLOAD, priority)
  \/ \E i \in 1..MaxJobs : damage_queue_file(i)
  \/ JobQueue_initialize
  \/ create_job_state(1, "video_creation")
  \/ update_job_status(1, COMPLETED, "1.0", "result", None)
  \/ update_pipeline_stage(1, STAGE_COMPLETED, "1.0")
  \/ damage_state_file(1)
  \/ StateManager_initialize

SpecRestart == Init /\ [][NextRestart]_vars

\* ------------------------------------------------------------ properties
\* job_id leaves the queue for processing in this step
Released(job_id) ==
  /\ job_data[job_id].status = PENDING
  /\ job_data'[job_id].status = PROCESSING

HeadId == heappop_item(priority_queue).job_id
HeadType == job_data[HeadId].job_type
\* get_job would pop an item, and the item passes / fails the rate-limit check
HeadReady == ~queue_lock /\ priority_queue # <<>> /\ check_rate_limits(HeadType)
HeadLimited == ~queue_lock /\ priority_queue # <<>> /\ ~check_rate_limits(HeadType)
Items(queue) == {queue[i] : i \in DOMAIN queue}

\* C1: when get_job releases a job, no job left in the ready-queue has a higher
\* priority than the released one (so low, high, normal dequeue as high,
\* normal, low).
C1_HigherPriorityFirst ==
  [][\A j \in JobIds :
       Released(j) => \A k \in Queued' : job_data[k].priority <= job_data[j].priority]_vars

\* C2: when get_job releases a job, no job of the same priority that was
\* created before it is still in the ready-queue.
C2_FifoTieBreak ==
  [][\A j \in JobIds :
       Released(j) =>
         \A k \in Queued' : job_data[k].priority = job_data[j].priority => k > j]_vars

\* the jobs of job_type released by get_job and not yet terminal
Processing(job_type) ==
  {j \in JobIds : /\ job_data[j].job_type = job_type
                  /\ job_data[j].status = PROCESSING
                  /\ job_results[j] \notin TerminalStatus}

\* C3: in every reachable state at most max_concurrent jobs of a type are in
\* status processing.
C3_ConcurrencyCap ==
  \A t \in JobType : Cardinality(Processing(t)) <= job_type_limits[t].max_concurrent

\* C4 as claimed: a job is released only when fewer than per_hour recorded
\* calls of its type are at most one hour old (a call blocks until it is more
\* than one hour old).
C4_WindowMoreThanOneHour ==
  [][\A j \in JobIds :
       Released(j) =>
         LET t == job_data[j].job_type
             calls == hourly_counters[t]
         IN Cardinality({i \in DOMAIN calls : now - calls[i] <= TicksPerHour})
              < job_type_limits[t].per_hour]_vars

\* C4 as amended: a job is released only when fewer than per_hour recorded
\* calls of its type are less than one hour old (a call blocks until it is at
\* least one hour old).
C4_WindowAtLeastOneHour ==
  [][\A j \in JobIds :
       Released(j) =>
         LET t == job_data[j].job_type
             calls == hourly_counters[t]
         IN Cardinality({i \in DOMAIN calls : now - calls[i] < TicksPerHour})
              < job_type_limits[t].per_hour]_vars

\* C4 witness: a type has had more releases than its hourly cap, so a release
\* waited for the window and then happened
C4_Witness ==
  \E t \in JobType : Len(hourly_counters[t]) > job_type_limits[t].per_hour

\* C5: a get_job that pops an item passing both caps returns that job, with
\* the job out of the queue, marked processing, stamped, and one call recorded.
C5_SuccessfulDequeue ==
  [][(get_job /\ HeadReady) =>
       /\ ret' = Returned("get_job", "job_data")
       /\ HeadId \notin Queued'
       /\ job_data'[HeadId].status = PROCESSING
       /\ job_data'[HeadId].started_at = now
       /\ Len(hourly_counters'[HeadType]) = Len(hourly_counters[HeadType]) + 1]_vars

\* C6: a get_job that pops a rate-limited item returns None and leaves the
\* items of the ready-queue (priority, timestamp, job), the job data with the
\* pending status, the hourly call lists, the counters and the results as
\* they were.
C6_RateLimitedNoOp ==
  [][(get_job /\ HeadLimited) =>
       /\ ret' = Returned("get_job", None)
       /\ Len(priority_queue') = Len(priority_queue)
       /\ Items(priority_queue') = Items(priority_queue)
       /\ job_data[HeadId].status = PENDING
       /\ UNCHANGED <<job_data, hourly_counters, job_counters, job_results, db,
                      active_jobs, queue_lock>>]_vars

\* C6 witness: get_job has returned None and the item at the head of the
\* ready-queue is rate-limited
C6_Witness == ret = Returned("get_job", None) /\ HeadLimited

\* C7: there is no state in which the head of the ready-queue is rate-limited,
\* a queued job of a type that passes the check waits behind it, and a get_job
\* attempt leaves the queue exactly as it was (so that every further attempt
\* pops the same head again).
C7_NoHeadOfLineBlocking ==
  ~(/\ HeadLimited
    /\ \E k \in Queued : check_rate_limits(job_data[k].job_type)
    /\ put_back(heappop_rest(priority_queue), heappop_item(priority_queue)) = priority_queue)

\* the status changes the job invariant allows
AllowedChange(from, to) ==
  \/ to = from
  \/ from = PENDING /\ to \in {PROCESSING, CANCELLED}
  \/ from = PROCESSING /\ to \in TerminalStatus

\* C8: the recorded status of a job changes only along pending -> processing
\* -> {completed, failed, cancelled} or pending -> cancelled, and a terminal
\* status never changes again.
C8_StatusTransitions ==
  [][\A j \in JobIds :
       sm_jobs[j] # NoJobState =>
         AllowedChange(sm_jobs[j].status, sm_jobs'[j].status)]_vars

\* C9: cancel_job on a job in the ready-queue returns true, with the job out
\* of the queue and its result cancelled.
C9_CancelPending ==
  [][\A j \in JobIds :
       (cancel_job(j) /\ j \in Queued) =>
         /\ ret' = Returned("cancel_job", "True")
         /\ j \notin Queued'
         /\ job_results'[j] = CANCELLED]_vars

\* job_id is neither in the ready-queue nor among the active jobs
UnknownId(job_id) == job_id \notin Queued /\ active_jobs[job_id] = None

\* C10: cancel_job with an id that is neither queued nor active returns false
\* and changes no queue, result, active-job or counter state.
C10_CancelUnknown ==
  [][\A j \in JobIds :
       (cancel_job(j) /\ UnknownId(j)) =>
         /\ ret' = Returned("cancel_job", "False")
         /\ UNCHANGED queueVars]_vars

\* C10 witness: cancel_job has returned false while jobs wait in the queue and
\* a created job is no longer queued
C10_Witness ==
  /\ ret = Returned("cancel_job", "False")
  /\ priority_queue # <<>>
  /\ \E j \in Created : j \notin Queued

\* a job that get_job has released and that has no terminal result yet
MidRun(job_id) ==
  /\ job_data[job_id].status = PROCESSING
  /\ job_results[job_id] \notin TerminalStatus

\* C11: a cancel request against a mid-run job is accepted and the job's
\* recorded status becomes cancelled (the job halts at its stage boundary and
\* marks itself cancelled).
C11_CancelMidRun ==
  [][\A j \in JobIds :
       (cancel_job(j) /\ MidRun(j)) =>
         /\ ret' = Returned("cancel_job", "True")
         /\ job_results'[j] = CANCELLED]_vars

\* C12: scenario A. For a job type with max_concurrent = 1, a high-priority
\* job is submitted and then a normal-priority job of the same type: the
\* normal job is not released before the high-priority job has completed.
C12_ScenarioA ==
  [][(/\ Created = {1, 2}
      /\ job_data[1].job_type = job_data[2].job_type
      /\ job_type_limits[job_data[1].job_type].max_concurrent = 1
      /\ job_data[1].priority = HIGH
      /\ job_data[2].priority = NORMAL
      /\ Released(2))
       => job_results[1] = COMPLETED]_vars

\* C13: update_pipeline_stage with a stage earlier in the order of
\* PipelineStage than the run's current stage, other than failed, changes
\* nothing of the run (so the stage index never decreases).
C13_StageMonotonic ==
  [][\A p \in StateJobIds, stage \in StageArgs :
       (/\ update_pipeline_stage(p, stage, "0.0")
        /\ active_pipelines[p] # NoPipelineState
        /\ stage.value # "failed"
        /\ StageIndex(stage) < StageIndex(active_pipelines[p].stage))
         => active_pipelines'[p] = active_pipelines[p]]_vars

\* C14: once the stage of a run is completed or failed, no
\* update_pipeline_stage call changes it.
C14_TerminalAbsorbing ==
  [][\A p \in StateJobIds, stage \in StageArgs :
       (/\ update_pipeline_stage(p, stage, "0.0")
        /\ active_pipelines[p].stage \in {STAGE_COMPLETED, STAGE_FAILED})
         => active_pipelines'[p].stage = active_pipelines[p].stage]_vars

\* a process_job call has run job_id through the pipeline
Ran == run.job_id # 0
\* the stage functions a run has to invoke: all of them, or those up to and
\* including the first one that does not succeed
ExpectedInvoked(fails_at) ==
  IF fails_at = 0 THEN stages ELSE SubSeq(stages, 1, fails_at)

\* C15: a run invokes the stage functions in the fixed order, each only after
\* every earlier one succeeded, none after the first failing one; it returns
\* success when no stage fails and failure otherwise.
C15_StageOrder ==
  (Ran /\ run.outcome \in {"success", "failure"}) =>
    /\ run.returned
    /\ run.invoked = ExpectedInvoked(run.fails_at)
    /\ run.success = (run.fails_at = 0)

\* C16: when a stage function raises, the run returns failure naming that
\* stage and the job is marked failed, as for an explicit failure result.
C16_StageException ==
  (Ran /\ run.outcome = "exception") =>
    /\ run.returned
    /\ ~run.success
    /\ run.failed_stage = stages[run.fails_at]
    /\ run.error = StageError(stages[run.fails_at])
    /\ sm_jobs[run.job_id].status = FAILED

\* C17: scenario B. When a stage returns failure, the job ends with status
\* failed, failed_stage is that stage's name, and the pipeline run of the job
\* ends in stage failed.
C17_ScenarioB ==
  (Ran /\ run.outcome = "failure") =>
    /\ sm_jobs[run.job_id].status = FAILED
    /\ run.failed_stage = stages[run.fails_at]
    /\ active_pipelines[run.job_id].stage = STAGE_FAILED

\* C18: after a run has failed in a stage, get_job_status answers failed with
\* an error message that is not empty and names the failing stage.
C18_FailedObservable ==
  (Ran /\ run.returned /\ ~run.success) =>
    /\ get_job_status(run.job_id).status = FAILED
    /\ get_job_status(run.job_id).error # None
    /\ get_job_status(run.job_id).error = StageError(run.failed_stage)

\* C20: when a stage function does not return, the run still returns, as for
\* a failure of that stage, and the job is marked failed.
C20_StageTimeout ==
  (Ran /\ run.outcome = "no return") =>
    /\ run.returned
    /\ run.failed_stage = stages[run.fails_at]
    /\ sm_jobs[run.job_id].status = FAILED

\* C19: a failed job result does not keep the other pending jobs from being
\* dequeued: while a job has the result failed and the head of the
\* ready-queue passes the rate-limit check, a get_job attempt can pop it.
C19_FailureIsolation ==
  (/\ \E j \in JobIds : job_results[j] = FAILED
   /\ priority_queue # <<>>
   /\ check_rate_limits(HeadType))
    => HeadReady

\* the stage texts of a persisted run that is completed or failed
TerminalStageText ==
  {json_stage(STAGE_COMPLETED), json_stage(STAGE_FAILED), "completed", "failed"}
\* the file holds a job that is pending or processing, or a run whose stage
\* is neither completed nor failed
PersistedNonTerminal(file) ==
  \/ \E j \in JobIds :
       /\ file.active_jobs[j] # NoJobData
       /\ file.active_jobs[j].status \in {PENDING, PROCESSING}
  \/ \E p \in JobIds :
       /\ file.active_pipelines[p] # NoPipelineData
       /\ file.active_pipelines[p].stage \notin TerminalStageText

\* C21: after the persisted state is loaded, check_recovery_needed returns
\* true if and only if a persisted job is pending or processing or a persisted
\* run has a stage other than completed or failed.
C21_NeedsRecovery ==
  [][(StateManager_initialize /\ ~load_state_raises(state_file)) =>
       ((ret'.val = "True") <=> PersistedNonTerminal(state_file))]_vars

\* C22: scenario C. A job persisted with status processing is not left in
\* status processing when initialize has run recover_state.
C22_ScenarioC ==
  [][\A j \in JobIds :
       (/\ StateManager_initialize
        /\ state_file.exists
        /\ state_file.active_jobs[j].status = PROCESSING)
         => sm_jobs'[j].status # PROCESSING]_vars

\* C23: loading a snapshot and saving it again with nothing in between leaves
\* the snapshot as it was: the queue file (items with priority, timestamp
\* and job in the same order, counters) and the state file (job and run
\* records with their stage, status and times).
C23_SnapshotRoundTrip ==
  [][/\ reload_queue_state => queue_file' = queue_file
     /\ reload_state => state_file' = state_file]_vars

\* C23 witness: the queue has been reloaded from a file of several items, one
\* stamped after time 0 and the first not the first created, while the state
\* tables hold a reloaded completed run (its stage the text that was saved)
\* and a completed job
C23_Witness ==
  /\ ret = Returned("reload_queue_state", None)
  /\ Len(queue_file.queue) >= 2
  /\ queue_file.queue[1].job_id # 1
  /\ \E i \in DOMAIN queue_file.queue : fromisoformat(queue_file.queue[i].timestamp) > 0
  /\ \E t \in JobType : queue_file.job_counters[t].total > 0
  /\ active_pipelines[1].stage = Str(json_stage(STAGE_COMPLETED))
  /\ state_file.active_pipelines[1].end_time # null
  /\ state_file.active_jobs[1].completed_at # null

\* the jobs with a running task in active_jobs: what _check_rate_limits counts
RunningTasks == {j \in JobIds : active_jobs[j] = "running"}
\* the calls of job_type inside the one-hour window
WindowCalls(job_type) ==
  {i \in DOMAIN hourly_counters[job_type] :
     hourly_counters[job_type][i] > now - TicksPerHour}

C25_InFlightAccounting ==
  Cardinality(RunningTasks) = Cardinality(UNION {Processing(t) : t \in JobType})

\* C26: after a get_job that ran the rate-limit check for the type of the
\* head item, the stored call list of that type holds no timestamp older than
\* one hour.
C26_LazyEviction ==
  [][(get_job /\ ~queue_lock /\ priority_queue # <<>>) =>
       \A i \in DOMAIN hourly_counters'[HeadType] :
         hourly_counters'[HeadType][i] >= now - TicksPerHour]_vars

\* the operations whose writes to the queue, the hourly lists, the active-job
\* table, the counters and the results sit inside `async with self.queue_lock`
\* (lines 162, 186, 229, 272)
LockedOperations == {"create_job", "get_job", "submit_job_result", "cancel_job"}

\* C27: every step that changes the ready-queue, the hourly call lists, the
\* active-job table, the counters or the result table is taken by an
\* operation that holds queue_lock while it writes.
C27_SingleLock ==
  [][<<priority_queue, hourly_counters, active_jobs, job_counters, job_results>>'
       # <<priority_queue, hourly_counters, active_jobs, job_counters, job_results>>
     => ret'.op \in LockedOperations]_vars

\* C28: when the database write fails, create_job still returns the job id
\* with the job in the ready-queue and in the snapshot, and a get_job that
\* pops an item passing both caps still returns that job.
C28_WriteFailureNotFatal ==
  [][/\ \A t \in JobType, p \in SubmittedPriority :
          create_job_with(t, p, TRUE) =>
            /\ ret' = Returned("create_job", "job_id")
            /\ Cardinality(Created') \in Queued'
            /\ queue_file' = Snapshot(priority_queue', job_counters')
     /\ (get_job_with(TRUE) /\ HeadReady) => ret' = Returned("get_job", "job_data")]_vars

\* C29: when loading the snapshot fails at startup, initialize still returns
\* and the component starts empty: the queue with an empty ready-queue, the
\* state manager with empty job and pipeline tables.
C29_LoadFailure ==
  [][/\ (/\ JobQueue_initialize
         /\ load_queue_state(queue_file, <<>>, ZeroCounters).raised)
          => /\ ret'.op = "JobQueue.initialize"
             /\ priority_queue' = <<>>
     /\ (StateManager_initialize /\ load_state_raises(state_file))
          => /\ ret'.op = "StateManager.initialize"
             /\ sm_jobs' = EmptyJobs
             /\ active_pipelines' = EmptyPipelines]_vars

\* an entry older than the staleness threshold of recover_state (one hour):
\* a finished entry by the time it finished, an unfinished one by the time it
\* started
StaleJob(state) ==
  IF state.completed_at # NoTime
  THEN state.completed_at < now - TicksPerHour
  ELSE state.started_at # NoTime /\ state.started_at < now - TicksPerHour
StalePipeline(state) ==
  IF state.end_time # NoTime
  THEN state.end_time < now - TicksPerHour
  ELSE state.start_time # NoTime /\ state.start_time < now - TicksPerHour

\* C30: after initialize has run recover_state, no job or run older than the
\* staleness threshold is in the tables, terminal or not.
C30_StaleDiscarded ==
  [][(StateManager_initialize /\ ret'.val = "True") =>
       /\ \A j \in JobIds : ~StaleJob(sm_jobs'[j])
       /\ \A p \in JobIds : ~StalePipeline(active_pipelines'[p])]_vars

\* C31: a job record carries a result payload only when its status is
\* completed and an error message only when its status is failed.
C31_ResultErrorPresence ==
  \A j \in JobIds :
    sm_jobs[j] # NoJobState =>
      /\ sm_jobs[j].result # None => sm_jobs[j].status = COMPLETED
      /\ sm_jobs[j].error # None => sm_jobs[j].status = FAILED

\* C32: set_pipeline_error on a run whose stage is already failed leaves the
\* run failed and its record as the first call left it.
C32_SetErrorIdempotent ==
  [][\A p \in StateJobIds :
       (/\ set_pipeline_error(p, "error")
        /\ active_pipelines[p].stage = STAGE_FAILED
        /\ active_pipelines[p].error_message = "error")
         => /\ active_pipelines'[p].stage = STAGE_FAILED
            /\ active_pipelines'[p] = active_pipelines[p]]_vars

\* a stage that is completed or failed: the member, or the str a loaded run
\* carries for it
TerminalStage(stage) ==
  stage \in {STAGE_COMPLETED, STAGE_FAILED} \cup {Str(text) : text \in TerminalStageText}

\* C33: a pipeline run whose stage is completed or failed has its end_time
\* set, whether update_pipeline_stage, set_pipeline_error or load_state put it
\* in that stage.
C33_TerminalHasEndTime ==
  \A p \in JobIds :
    TerminalStage(active_pipelines[p].stage) => active_pipelines[p].end_time # NoTime

\* C33 witness: a restarted StateManager has loaded a run that failed before the
\* restart, with the end_time it was given then
C33_Witness ==
  /\ ret.op = "StateManager.initialize"
  /\ active_pipelines[1].stage = Str(json_stage(STAGE_FAILED))
  /\ active_pipelines[1].end_time # NoTime
  /\ active_pipelines[1].end_time < now

\* C34: no operation waits for queue_lock while its own task holds it:
\* every submit_job_result call returns and leaves the lock released.
C34_NoSelfDeadlock ==
  [][\A j \in JobIds, status \in {COMPLETED, FAILED} :
       submit_job_result(j, status) =>
         /\ ret'.val # Hung
         /\ ~queue_lock']_vars

\* the tables of the queue that hold job_id: the ready-queue, the active
\* jobs, the results
Holders(job_id) ==
  {table \in {"priority_queue", "active_jobs", "job_results"} :
     \/ table = "priority_queue" /\ job_id \in Queued
     \/ table = "active_jobs" /\ active_jobs[job_id] # None
     \/ table = "job_results" /\ job_results[job_id] # None}

\* C36: every created job is in exactly one of the ready-queue, the active
\* jobs and the results (no result is cleaned up in these runs), so a job
\* that get_job popped was either returned to the caller or put back.
C36_NoJobLost ==
  \A j \in Created : Cardinality(Holders(j)) = 1

\* ------------------------------------------------------ JobQueue.shutdown
\* shutdown, lines 677-699: the processor task is cancelled and awaited, then
\* queue_lock is acquired (a taken lock makes the call wait, and no operation
\* that hangs ever releases it), the job tasks that are not done are
\* cancelled and awaited (they stay in active_jobs), and save_queue_state is
\* awaited with the lock held and without a timeout
shutdown ==
  /\ IF acquire_waits(queue_lock)
     THEN /\ ret' = Returned("shutdown", Hung)
          /\ UNCHANGED <<active_jobs, queue_lock, queue_file>>
     ELSE /\ active_jobs' = [j \in JobIds |->
                               IF active_jobs[j] = "running" THEN "done" ELSE active_jobs[j]]
          /\ IF acquire_waits(TRUE)
             THEN /\ queue_lock' = TRUE
                  /\ ret' = Returned("shutdown", Hung)
                  /\ UNCHANGED queue_file
             ELSE /\ queue_file' = Snapshot(priority_queue, job_counters)
                  /\ ret' = Returned("shutdown", None)
                  /\ UNCHANGED queue_lock
  /\ UNCHANGED <<breakerVars, now, priority_queue, job_data, job_results, job_counters,
                 hourly_counters, db, stateVars, pipeVars>>

\* the queue with its shutdown
NextShutdown ==
  \/ Next
  \/ shutdown

SpecShutdown == Init /\ [][NextShutdown]_vars

\* C38: shutdown always returns, after cancelling the tasks and saving the
\* final queue state; it never waits forever on queue_lock.
C38_ShutdownTerminates ==
  [][shutdown =>
       /\ ret' = Returned("shutdown", None)
       /\ queue_file' = Snapshot(priority_queue, job_counters)
       /\ ~queue_lock']_vars

\* ------------------------------------------------ JobQueue: the processor
\* _cleanup_old_results, lines 551-555: the calls older than 24 hours leave
\* the hourly lists. (A result leaves job_results when its completed_at is
\* older than 24 hours; the clock of these runs never gets that far.)
ResultHours == 24
cleanup_old_results(counters) ==
  [t \in JobType |->
     SelectSeq(counters[t], LAMBDA ts : ts > now - ResultHours * TicksPerHour)]

\* _handle_job_completion, the done-callback of the task of job_id: the task
\* ends (the mock of _execute_job returns a completed result) and
\* submit_job_result is awaited, which stores the result and then waits in
\* _get_job_type_for_id for the lock it holds; with the lock taken by another
\* task it waits before storing anything
handle_job_completion(job_id) ==
  /\ active_jobs[job_id] = "running"
  /\ active_jobs' = [active_jobs EXCEPT ![job_id] = "done"]
  /\ IF acquire_waits(queue_lock)
     THEN UNCHANGED <<job_results, queue_lock>>
     ELSE /\ job_results' = [job_results EXCEPT ![job_id] = COMPLETED]
          /\ queue_lock' = TRUE
  /\ ret' = Returned("submit_job_result", Hung)
  /\ UNCHANGED <<breakerVars, now, priority_queue, job_data, job_counters, hourly_counters,
                 db, queue_file, stateVars, pipeVars>>

\* one iteration of the loop of _process_queue, lines 404-431: get_job with
\* its timeout (as in get_job above), a task for the job it returns, then
\* _cleanup_old_results, which acquires queue_lock without a timeout, and
\* _update_statistics (a statistics file, no state of the queue)
process_queue ==
  LET open == ~acquire_waits(queue_lock) /\ priority_queue # <<>>
      prioritized_job == heappop_item(priority_queue)
      rest == heappop_rest(priority_queue)
      job_id == prioritized_job.job_id
      job_type == job_data[job_id].job_type
      released == open /\ check_rate_limits(job_type)
      returned == released /\ ~acquire_waits(TRUE)
      called == IF released
                THEN [hourly_counters EXCEPT ![job_type] = Append(@, now)]
                ELSE hourly_counters
  IN /\ priority_queue' =
          IF ~open THEN priority_queue
          ELSE IF released THEN rest
          ELSE put_back(rest, prioritized_job)
     /\ job_data' =
          IF released
          THEN [job_data EXCEPT ![job_id].status = PROCESSING, ![job_id].started_at = now]
          ELSE job_data
     /\ db' = IF released THEN [db EXCEPT ![job_id] = PROCESSING] ELSE db
     /\ queue_file' = IF returned THEN Snapshot(rest, job_counters) ELSE queue_file
     /\ active_jobs' =
          IF returned THEN [active_jobs EXCEPT ![job_id] = "running"] ELSE active_jobs
     /\ IF acquire_waits(queue_lock)
        THEN /\ hourly_counters' = called
             /\ ret' = Returned("_process_queue", Hung)
        ELSE /\ hourly_counters' = cleanup_old_results(called)
             /\ ret' = Returned("_process_queue", IF returned THEN "task" ELSE None)
     /\ UNCHANGED <<breakerVars, now, job_results, job_counters, queue_lock, stateVars, pipeVars>>

\* the tasks of the queue on the event loop: a job task that runs ends and
\* its done-callback is served; otherwise the processor takes its next
\* iteration
queue_tasks ==
  IF \E j \in JobIds : active_jobs[j] = "running"
  THEN \E j \in {k \in JobIds : active_jobs[k] = "running"} : handle_job_completion(j)
  ELSE process_queue

NextProcessor ==
  \/ \E job_type \in JobType, priority \in SubmittedPriority : create_job(job_type, priority)
  \/ queue_tasks
  \/ Tick

\* the event loop serves the tasks of the queue again and again (the loop of
\* _process_queue sleeps 0.1 s per iteration), and time passes
SpecProcessor ==
  /\ Init
  /\ [][NextProcessor]_vars
  /\ WF_vars(queue_tasks)
  /\ WF_vars(Tick)

\* C35: under fair scheduling, every job that get_job has taken from the
\* queue (no rate limit holds it back) eventually has the result completed,
\* failed or cancelled.
C35_JobLiveness ==
  \A j \in JobIds :
    (job_data[j].status = PROCESSING) ~> (job_results[j] \in TerminalStatus)

\* the jobs of job_type that have a terminal result
Finished(job_type) ==
  {j \in Created : job_data[j].job_type = job_type /\ job_results[j] \in TerminalStatus}

NextConsumer ==
  \/ \E job_id \in JobIds : handle_job_completion(job_id)
  \/ Tick

SpecConsumer == InitLimiter /\ [][NextConsumer]_vars

\* job_id is recorded as completed, by the queue or by the state manager
RecordedCompleted(job_id) ==
  \/ job_results[job_id] = COMPLETED
  \/ sm_jobs[job_id].status = COMPLETED

record_failure(b) ==
  LET failures == b.failures + 1
  IN [state |-> IF failures >= FailureThreshold THEN "OPEN" ELSE b.state,
      failures |-> failures,
      last_failure_time |-> now]

\* reset
reset(b) == [state |-> "CLOSED", failures |-> 0, last_failure_time |-> NoTime]

\* call, lines 20-28: up to the await of func. An OPEN breaker whose recovery
\* timeout has passed becomes HALF_OPEN and lets the call in; an OPEN breaker
\* otherwise raises CircuitBreakerError; any other state lets the call in.
call_begin(c) ==
  /\ ~breaker_calls[c].awaiting
  /\ LET recovered ==
           /\ breaker.last_failure_time # NoTime
           /\ now - breaker.last_failure_time > RecoveryTimeout
     IN IF breaker.state = "OPEN" /\ ~recovered
        THEN /\ ret' = Returned("CircuitBreaker.call", "CircuitBreakerError")
             /\ UNCHANGED <<breaker, breaker_calls>>
        ELSE /\ breaker' = IF breaker.state = "OPEN"
                           THEN [breaker EXCEPT !.state = "HALF_OPEN"]
                           ELSE breaker
             /\ breaker_calls' = [breaker_calls EXCEPT ![c] = [awaiting |-> TRUE, admitted |-> breaker'.state]]
             /\ ret' = Returned("CircuitBreaker.call", "awaiting")
  /\ UNCHANGED <<now, queueVars, stateVars, pipeVars>>

\* call, lines 28-35: func has returned or raised. A result resets the
\* breaker when its state is HALF_OPEN at that moment; an exception is
\* recorded as a failure and raised again.
call_end(c, outcome) ==
  /\ breaker_calls[c].awaiting
  /\ breaker' =
       IF outcome = "exception" THEN record_failure(breaker)
       ELSE IF breaker.state = "HALF_OPEN" THEN reset(breaker)
       ELSE breaker
  /\ breaker_calls' = [breaker_calls EXCEPT ![c] = NoCall]
  /\ ret' = Returned("CircuitBreaker.call", outcome)
  /\ UNCHANGED <<now, queueVars, stateVars, pipeVars>>

NextBreaker ==
  \/ \E c \in CallIds : call_begin(c)
  \/ \E c \in CallIds, outcome \in CallOutcome : call_end(c, outcome)
  \/ Tick

SpecBreaker == Init /\ [][NextBreaker]_vars

\* C40: in every interleaving of call invocations, a call that was admitted
\* while the breaker was HALF_OPEN leaves the breaker OPEN when it fails, and
\* CLOSED with failure count 0 when it succeeds.
C40_HalfOpenProbe ==
  [][\A c \in CallIds, outcome \in CallOutcome :
       (call_end(c, outcome) /\ breaker_calls[c].admitted = "HALF_OPEN") =>
         IF outcome = "exception"
         THEN breaker'.state = "OPEN"
         ELSE breaker'.state = "CLOSED" /\ breaker'.failures = 0]_vars

====
